---- MODULE Spec2Model ----
(***************************************************************************)
(* A model of the noisyterminal renderer: the memoizing noise cache of the *)
(* two optimized variants (test4_optimized.py, test4_optimized_v2.py), the *)
(* noise-to-colour mapping of all three variants and the mouse-record      *)
(* decoder of the main loops.                                              *)
(*                                                                         *)
(* Numbers.  Python floats are modelled as exact fixed-point integers:     *)
(*   - a coordinate is an integer count of thousandths;                    *)
(*   - a noise value is an integer count of tenths;                        *)
(*   - zvelocity is an integer count of wheel steps of 0.01.               *)
(* Floating-point rounding error is not modelled.                          *)
(***************************************************************************)
EXTENDS Integers, Sequences, FiniteSets, TLC

\* ------------------------------------------------------------------ bounds
\* Largest configured cache_max_size the model tries (the sources set 10000
\* and 2000; the eviction arithmetic is the same at every size).
MaxCacheMax == 5
\* Noise-source invocations (cache misses) in one run.
MaxMisses == 8
\* Cache hits the v2 renderer counts in one run.
MaxHits == 2
\* Mouse records in one chunk (the decoder example, of three, is always an input).
MaxRecords == 2
\* Chunks read in one run.
MaxChunks == 1
\* Frames of one render run (the optimized loops recalibrate at frame 10).
MaxFrames == 10
\* Cells of the grid (width * height) in the render runs.
MaxCells == 2
\* Largest magnitude of a noise sample, in tenths: pnoise3 may leave [-1, 1].
MaxNoise == 12
\* Largest grid of the velocity runs.
MaxWidth == 8
MaxHeight == 4
\* Largest grid of the frame runs, and the frames one renderer renders.
MaxCols == 3
MaxRows == 2
MaxRenders == 4
\* Resizes of the terminal in one run of the loop.
MaxResizes == 1
\* Frames of one run of the loop when its input is followed.
MaxLoopFrames == 3
\* Frames of one run of the loop when its size checks are followed: past the
\* first size check of test4_optimized.py (frame 30) and of
\* test4_optimized_v2.py (frame 31).
MaxSizeFrames == 32

VARIABLES
    variant,          \* which source file runs: "test4" | "test4_optimized" | "test4_optimized_v2"
    cache_max_size,   \* renderer.cache_max_size
    noise_cache,      \* renderer.noise_cache: the dict, as its entries in insertion order
    cache_hits,       \* v2 only: renderer.cache_hits
    cache_misses,     \* v2 only: renderer.cache_misses
    noise_calls,      \* observer: how often pnoise3 was invoked
    fresh,            \* observer: how many of the input coordinates were looked up so far
    calls_before,     \* observer: noise_calls as it was before the last lookup
    arg,              \* observer: the coordinate of the last lookup (<<>> before the first)
    ret,              \* observer: the value the last lookup returned
    age,              \* observer: for each cached key, the value of noise_calls when it was inserted
    was_hit,          \* observer: the last lookup was a hit
    stale_hit,        \* observer: the last lookup evicted the key the lookup before it had hit
    evicted,          \* observer: the keys the last lookup removed, in removal order
    returned,         \* observer: key -> every value a lookup of that key ever returned
    since,            \* observer: key -> the values returned for it since it was last inserted
    mousex,           \* main loop: mousex
    mousey,           \* main loop: mousey
    zvelocity,        \* main loop: zvelocity, in wheel steps of 0.01
    pending,          \* main loop: the entries of instreamelements1 the for loop has still to visit
    crashed,          \* the process died of an uncaught exception
    events,           \* observer: what each non-empty entry of this chunk did, in order
    chunks,           \* observer: how many chunks were read
    mx,               \* main loop: slope of the noise-to-intensity line, a fraction <<n, d>>
    b,                \* main loop: its intercept, a fraction <<n, d>>
    minfound,         \* main loop: smallest noise value tracked, in tenths
    maxfound,         \* main loop: largest noise value tracked, in tenths
    framecount,       \* main loop: framecount
    pc,               \* main loop: where the frame is: "loop" (top) or "render"
    cellno,           \* render loops: cells of this frame rendered so far
    noiseval,         \* render loops: the noise value of the last cell, in tenths
    token,            \* render loops: the colour triple of the last token written
    sampled,          \* observer: the noise values sampled for this frame
    seen,             \* observer: <<smallest, largest>> sample of all frames, <<>> if none
    width,            \* main loop: columns of the grid
    height,           \* main loop: rows of the grid (terminal rows - 1)
    xvelocity,        \* main loop: xvelocity, a float
    yvelocity,        \* main loop: yvelocity, a float
    rows,             \* renderer: the rows the last render_frame returned
    frame_args,       \* observer: <<xoffset, yoffset, zoffset, framecount>> of that call
    lookups,          \* observer: the lookups of that call in order, [at, value] each
    renders,          \* observer: how many frames the renderer has rendered
    event,            \* main loop: what screen.getch() returned this frame
    term,             \* environment: <<rows, columns>> screen.getmaxyx() returns
    renderer,         \* main loop: [width, height, born] of the renderer object
    last_size_check,  \* main loop (v2): last_size_check
    xoffset,          \* main loop: xoffset, a float
    yoffset,          \* main loop: yoffset, a float
    zoffset,          \* main loop: zoffset, in steps of 0.01 like zvelocity
    resizes           \* observer: how often the terminal was resized

cacheVars == <<cache_max_size, noise_cache, cache_hits, cache_misses, noise_calls,
               fresh, calls_before, arg, ret, age, was_hit, stale_hit, evicted, returned, since>>

decodeVars == <<mousex, mousey, zvelocity, pending, crashed, events, chunks>>

renderVars == <<mx, b, minfound, maxfound, framecount, pc, cellno, noiseval, token,
                sampled, seen>>

velocityVars == <<width, height, xvelocity, yvelocity>>

frameVars == <<rows, frame_args, lookups, renders>>

loopVars == <<event, term, renderer, last_size_check, xoffset, yoffset, zoffset, resizes>>

vars == <<variant, cacheVars, decodeVars, renderVars, velocityVars, frameVars, loopVars>>

\* ------------------------------------------------------------ noise source
\* pnoise3 is the external Perlin-noise function: deterministic, pure, a
\* value near [-1, 1].  It is modelled by a fixed deterministic function of
\* the unquantized coordinate whose values (tenths) run over -1.2 .. 1.2 and
\* differ between coordinates that share a cache key.
pnoise3(x, y, z) == ((7 * x + 3 * y + z) % 25) - 12

\* ------------------------------------------------------------ quantization
\* Python's round(v, ndigits) of a float, on thousandths: the nearest
\* multiple of 10^(3-ndigits), an exact tie going to the even multiple.
Pow10(n) == IF n = 0 THEN 1 ELSE IF n = 1 THEN 10 ELSE IF n = 2 THEN 100 ELSE 1000

round(v, ndigits) ==
    LET g  == Pow10(3 - ndigits)
        lo == (v \div g) * g
        r  == v - lo
    IN  IF 2 * r < g THEN lo
        ELSE IF 2 * r > g THEN lo + g
        ELSE IF (lo \div g) % 2 = 0 THEN lo ELSE lo + g

\* key = (round(x, d), round(y, d), round(z, d))
CacheKey(c, ndigits) == <<round(c[1], ndigits), round(c[2], ndigits), round(c[3], ndigits)>>

\* ------------------------------------------------------------ dict helpers
Keys(cache) == {cache[i].key : i \in 1..Len(cache)}

\* self.noise_cache[key]
Get(cache, key) == (CHOOSE i \in 1..Len(cache) : cache[i].key = key)

Value(cache, key) == cache[Get(cache, key)].value

\* list(self.noise_cache.keys())[:n]
FirstKeys(cache, n) ==
    [i \in 1..(IF n < Len(cache) THEN n ELSE Len(cache)) |-> cache[i].key]

\* for k in items_to_remove: del self.noise_cache[k]
DelKeys(cache, ks) ==
    LET gone == {ks[i] : i \in 1..Len(ks)}
    IN  SelectSeq(cache, LAMBDA e : e.key \notin gone)

\* ------------------------------------------------------------ cache lookup
\* The inputs of the cache runs: seven coordinates (thousandths, scaled by
\* Grain to the variant's rounding) on six keys; the first and the third
\* differ in every axis and share a key.  The cache compares keys only for
\* equality, so the coordinates are first used in this fixed order; once used,
\* a coordinate may be looked up again at any time.
Grain(v) == IF v = "test4_optimized" THEN 1 ELSE 10

BaseCoords ==
    << <<0, 0, 0>>, <<10, 0, 0>>, <<4, -3, 2>>, <<0, 12, 0>>, <<0, 0, 20>>,
       <<10, 12, 0>>, <<10, 12, 20>> >>

CoordAt(v, i) ==
    <<BaseCoords[i][1] * Grain(v), BaseCoords[i][2] * Grain(v), BaseCoords[i][3] * Grain(v)>>

Coords(v) == {CoordAt(v, i) : i \in 1..Len(BaseCoords)}

\* round(x, 2) in test4_optimized.py, round(x, 1) in test4_optimized_v2.py
Digits(v) == IF v = "test4_optimized" THEN 2 ELSE 1

\* cache_max_size // 5 in test4_optimized.py, cache_max_size // 2 in v2
Divisor(v) == IF v = "test4_optimized" THEN 5 ELSE 2

AllKeys(v) == {CacheKey(c, Digits(v)) : c \in Coords(v)}

\* if key in self.noise_cache
IsHit(cache, key) == key \in Keys(cache)

\* (mutant) a hit that recomputes the noise at the lookup's own coordinate
HitValueRecomputed(cache, key, c) == pnoise3(c[1], c[2], c[3])

\* return self.noise_cache[key]
HitValue(cache, key, c) == Value(cache, key)

\* (mutant) an LRU cache: a hit makes the entry the newest
AfterHitRefreshed(cache, key) ==
    Append(SelectSeq(cache, LAMBDA e : e.key # key), cache[Get(cache, key)])

\* what a hit leaves of the dict: all of it, in the same order
AfterHit(cache, key) == cache

\* (mutant) eviction one insertion late
CacheOverfull(cache, max) == Len(cache) > max

\* if len(self.noise_cache) >= self.cache_max_size
CacheFull(cache, max) == Len(cache) >= max

\* (mutant) the newest entries are removed: keys()[-n:]
ItemsToRemoveNewest(cache, max, d) ==
    LET n == IF max \div d < Len(cache) THEN max \div d ELSE Len(cache)
    IN  [i \in 1..n |-> cache[Len(cache) - n + i].key]

\* items_to_remove = list(self.noise_cache.keys())[:self.cache_max_size // d]
ItemsToRemove(cache, max, d) == FirstKeys(cache, max \div d)

\* (mutant) the value stored is the noise at the rounded coordinate
StoreNoiseOfKey(cache, key, value) ==
    Append(cache, [key |-> key, value |-> pnoise3(key[1], key[2], key[3])])

\* self.noise_cache[key] = value (the key is absent: appended as the newest entry)
Store(cache, key, value) == Append(cache, [key |-> key, value |-> value])

\* The body shared by get_noise_cached and get_noise_optimized.
Lookup(c, ndigits, d) ==
    LET key == CacheKey(c, ndigits)
    IN  /\ arg' = c
        /\ calls_before' = noise_calls
        /\ IF IsHit(noise_cache, key)
           THEN /\ ret' = HitValue(noise_cache, key, c)
                /\ noise_cache' = AfterHit(noise_cache, key)
                /\ noise_calls' = noise_calls
                /\ evicted' = <<>>
                /\ age' = age
                /\ was_hit' = TRUE
                /\ stale_hit' = FALSE
                /\ since' = [since EXCEPT ![key] = @ \cup {ret'}]
           ELSE LET value == pnoise3(c[1], c[2], c[3])
                    items_to_remove ==
                        IF CacheFull(noise_cache, cache_max_size)
                        THEN ItemsToRemove(noise_cache, cache_max_size, d)
                        ELSE <<>>
                    gone == {items_to_remove[i] : i \in 1..Len(items_to_remove)}
                IN  /\ noise_calls < MaxMisses
                    /\ noise_calls' = noise_calls + 1
                    /\ noise_cache' = Store(DelKeys(noise_cache, items_to_remove), key, value)
                    /\ ret' = value
                    /\ evicted' = items_to_remove
                    /\ age' = [k \in Keys(noise_cache') |->
                                 IF k = key THEN noise_calls' ELSE age[k]]
                    /\ was_hit' = FALSE
                    /\ stale_hit' = (was_hit /\ CacheKey(arg, ndigits) \in gone)
                    /\ since' = [k \in DOMAIN since |->
                                   IF k = key THEN {value}
                                   ELSE IF k \in gone THEN {} ELSE since[k]]
        /\ returned' = [returned EXCEPT ![key] = @ \cup {ret'}]

\* NoiseRenderer.get_noise_cached(x, y, z)
get_noise_cached(c) ==
    /\ variant = "test4_optimized"
    /\ Lookup(c, Digits(variant), Divisor(variant))
    /\ UNCHANGED <<variant, cache_max_size, cache_hits, cache_misses>>

\* OptimizedNoiseRenderer.get_noise_optimized(x, y, z), enable_cache = True
get_noise_optimized(c) ==
    LET hit == IsHit(noise_cache, CacheKey(c, Digits(variant)))
    IN  /\ variant = "test4_optimized_v2"
        /\ hit => cache_hits < MaxHits
        /\ Lookup(c, Digits(variant), Divisor(variant))
        /\ cache_hits' = IF hit THEN cache_hits + 1 ELSE cache_hits
        /\ cache_misses' = IF hit THEN cache_misses ELSE cache_misses + 1
        /\ UNCHANGED <<variant, cache_max_size>>

\* NoiseRenderer.__init__ / OptimizedNoiseRenderer.__init__: an empty cache
\* of a configured maximum size.
IdleCache ==
    /\ cache_max_size = 0
    /\ noise_cache = <<>>
    /\ cache_hits = 0
    /\ cache_misses = 0
    /\ noise_calls = 0
    /\ fresh = 0
    /\ calls_before = 0
    /\ arg = <<>>
    /\ ret = 0
    /\ age = <<>>
    /\ was_hit = FALSE
    /\ stale_hit = FALSE
    /\ evicted = <<>>
    /\ returned = <<>>
    /\ since = <<>>

\* ==================================================== float arithmetic
\* Python floats are IEEE 754 doubles: every operation returns the exact
\* result rounded to 53 significant bits, ties to even. The velocities are
\* compared for exact equality, so they are computed bit for bit.
\* A natural number is its sequence of bits, lowest first, no leading zero;
\* a float is [neg, mant, exp] standing for (-1)^neg * mant * 2^exp, with an
\* odd mant (no trailing zero), zero being [FALSE, <<>>, 0].
RECURSIVE NatOfInt(_)
NatOfInt(n) == IF n = 0 THEN <<>> ELSE <<n % 2>> \o NatOfInt(n \div 2)

RECURSIVE IntOfNat(_)
IntOfNat(a) == IF a = <<>> THEN 0 ELSE Head(a) + 2 * IntOfNat(Tail(a))

RECURSIVE NatNorm(_)
NatNorm(a) ==
    IF a = <<>> THEN <<>>
    ELSE IF a[Len(a)] = 0 THEN NatNorm(SubSeq(a, 1, Len(a) - 1))
    ELSE a

\* a + c + carry
RECURSIVE NatAddC(_, _, _)
NatAddC(a, c, carry) ==
    IF a = <<>> /\ c = <<>> THEN (IF carry = 0 THEN <<>> ELSE <<1>>)
    ELSE LET x == IF a = <<>> THEN 0 ELSE Head(a)
             y == IF c = <<>> THEN 0 ELSE Head(c)
             t == x + y + carry
         IN  <<t % 2>> \o NatAddC(IF a = <<>> THEN <<>> ELSE Tail(a),
                                  IF c = <<>> THEN <<>> ELSE Tail(c), t \div 2)

NatAdd(a, c) == NatAddC(a, c, 0)

\* a - c - borrow, for a >= c + borrow
RECURSIVE NatSubB(_, _, _)
NatSubB(a, c, borrow) ==
    IF a = <<>> THEN <<>>
    ELSE LET y == IF c = <<>> THEN 0 ELSE Head(c)
             t == Head(a) - y - borrow
         IN  <<t % 2>> \o NatSubB(Tail(a), IF c = <<>> THEN <<>> ELSE Tail(c),
                                  IF t < 0 THEN 1 ELSE 0)

NatSub(a, c) == NatNorm(NatSubB(a, c, 0))

\* a < c, both without leading zeros
RECURSIVE NatLess(_, _)
NatLess(a, c) ==
    IF Len(a) # Len(c) THEN Len(a) < Len(c)
    ELSE IF a = <<>> THEN FALSE
    ELSE IF a[Len(a)] # c[Len(c)] THEN a[Len(a)] < c[Len(c)]
    ELSE NatLess(NatNorm(SubSeq(a, 1, Len(a) - 1)), NatNorm(SubSeq(c, 1, Len(c) - 1)))

\* a * k + carry for a small k
RECURSIVE NatMulSmallC(_, _, _)
NatMulSmallC(a, k, carry) ==
    IF a = <<>> THEN NatOfInt(carry)
    ELSE LET t == Head(a) * k + carry
         IN  <<t % 2>> \o NatMulSmallC(Tail(a), k, t \div 2)

NatMulSmall(a, k) == NatNorm(NatMulSmallC(a, k, 0))

\* a * 2^n
NatShl(a, n) == IF a = <<>> THEN <<>> ELSE [i \in 1..n |-> 0] \o a

\* The quotient bits (highest first), followed by the remainder, of dividing
\* the number with bits `hi` (highest first) by the small d, entered with rest r.
RECURSIVE LongDiv(_, _, _)
LongDiv(hi, d, r) ==
    IF hi = <<>> THEN <<r>>
    ELSE IF 2 * r + Head(hi) >= d
         THEN <<1>> \o LongDiv(Tail(hi), d, 2 * r + Head(hi) - d)
         ELSE <<0>> \o LongDiv(Tail(hi), d, 2 * r + Head(hi))

Reverse(a) == [i \in 1..Len(a) |-> a[Len(a) + 1 - i]]

\* The number of trailing (lowest) zero bits of a non-zero natural.
RECURSIVE LowZeros(_)
LowZeros(a) == IF Head(a) = 1 THEN 0 ELSE 1 + LowZeros(Tail(a))

\* The float of the value (-1)^neg * mant * 2^exp, mant of at most 53 bits.
Canon(neg, mant, exp) ==
    LET a == NatNorm(mant)
    IN  IF a = <<>> THEN [neg |-> FALSE, mant |-> <<>>, exp |-> 0]
        ELSE LET z == LowZeros(a)
             IN  [neg |-> neg, mant |-> SubSeq(a, z + 1, Len(a)), exp |-> exp + z]

\* Rounding of the exact value (-1)^neg * mant * 2^exp to 53 significant
\* bits, to nearest, ties to even.
Round53(neg, mant, exp) ==
    LET a == NatNorm(mant)
        drop == Len(a) - 53
    IN  IF drop <= 0 THEN Canon(neg, a, exp)
        ELSE LET kept == SubSeq(a, drop + 1, Len(a))
                 half == a[drop] = 1
                 sticky == \E i \in 1..(drop - 1) : a[i] = 1
                 up == half /\ (sticky \/ kept[1] = 1)
             IN  Canon(neg, IF up THEN NatAdd(kept, <<1>>) ELSE kept, exp + drop)

\* float(n) of a small integer
FlOfInt(n) == Canon(n < 0, NatOfInt(IF n < 0 THEN -n ELSE n), 0)

FlNeg(x) == IF x.mant = <<>> THEN x ELSE [x EXCEPT !.neg = ~x.neg]

\* x + y
FlAdd(x, y) ==
    LET e == IF x.exp < y.exp THEN x.exp ELSE y.exp
        a == NatShl(x.mant, x.exp - e)
        d2 == NatShl(y.mant, y.exp - e)
    IN  IF x.neg = y.neg THEN Round53(x.neg, NatAdd(a, d2), e)
        ELSE IF NatLess(a, d2) THEN Round53(y.neg, NatSub(d2, a), e)
        ELSE Round53(x.neg, NatSub(a, d2), e)

FlSub(x, y) == FlAdd(x, FlNeg(y))

\* x * y, where y has a small mantissa (an integer or a half-integer)
FlMul(x, y) ==
    CHOOSE r \in { Round53(x.neg # y.neg, m, x.exp + y.exp) :
                       m \in {NatMulSmall(x.mant, IntOfNat(y.mant))} } : TRUE

\* p / q for small integers p and q > 0: 64 further quotient bits, and the
\* lowest bit set when the division left a remainder
FlDivInt(p, q) ==
    LET n == NatShl(NatOfInt(IF p < 0 THEN -p ELSE p), 64)
        d == LongDiv(Reverse(n), q, 0)
        bits == <<IF d[Len(d)] = 0 THEN 0 ELSE 1>> \o Reverse(SubSeq(d, 1, Len(d) - 1))
    IN  Round53(p < 0, bits, -65)

\* ================================================================ velocity
\* def mxplusb(exp1, act1, exp2, act2), on integers as the velocity fit calls
\* it: m = (exp2 - exp1) / (act2 - act1); b = exp1 - (m * act1)
mxplusb_float(exp1, act1, exp2, act2) ==
    LET m == FlDivInt(exp2 - exp1, act2 - act1)
    IN  <<m, FlSub(FlOfInt(exp1), FlMul(m, FlOfInt(act1)))>>

\* [Xmx, Xb] = mxplusb(-1, 0, 1, width); xvelocity = mousex * Xmx + Xb
\* (test4.py and test4_optimized.py; the same for y with height)
velocity_fit(mouse, size) ==
    LET fit == mxplusb_float(-1, 0, 1, size)
    IN  FlAdd(FlMul(fit[1], FlOfInt(mouse)), fit[2])

\* xcentre = width/2; xvelocity = (mousex - xcentre) * 0.001
\* (test4_optimized_v2.py)
velocity_v2(mouse, size) ==
    CHOOSE r \in { FlMul(k, d) : k \in {FlDivInt(1, 1000)},
                                   d \in {FlSub(FlOfInt(mouse), FlDivInt(size, 2))} } : TRUE

Velocity(v, mouse, size) ==
    IF v = "test4_optimized_v2" THEN velocity_v2(mouse, size)
    ELSE velocity_fit(mouse, size)

\* the per-frame velocity recomputation of the main loop
UpdateVelocity ==
    /\ xvelocity' = Velocity(variant, mousex, width)
    /\ yvelocity' = Velocity(variant, mousey, height)
    /\ UNCHANGED <<variant, width, height, mousex, mousey>>

\* xvelocity = 0.01; yvelocity = 0.01; width and height as set_terminal_size
\* left them (not part of the other runs, which keep a grid of MaxCells cells)
IdleVelocity ==
    /\ width = MaxCells
    /\ height = 1
    /\ xvelocity = FlDivInt(1, 100)
    /\ yvelocity = FlDivInt(1, 100)

\* ============================================================ colour mapping
\* Fractions <<n, d>> with d > 0, in lowest terms: the exact value of a float.
RECURSIVE Gcd(_, _)
Gcd(m, n) == IF n = 0 THEN m ELSE Gcd(n, m % n)

Abs(n) == IF n < 0 THEN -n ELSE n

Frac(n, d) ==
    LET g == Gcd(Abs(n), Abs(d))
        sg == IF d < 0 THEN -1 ELSE 1
    IN  <<sg * (n \div g), sg * (d \div g)>>

FAdd(p, q) == Frac(p[1] * q[2] + q[1] * p[2], p[2] * q[2])

FSub(p, q) == Frac(p[1] * q[2] - q[1] * p[2], p[2] * q[2])

FMul(p, q) == Frac(p[1] * q[1], p[2] * q[2])

\* p / q, q not zero
FDiv(p, q) == Frac(p[1] * q[2], p[2] * q[1])

FInt(n) == <<n, 1>>

\* a noise value of n tenths
Tenths(n) == Frac(n, 10)

FGreater(p, q) == p[1] * q[2] > q[1] * p[2]

\* int(v) and "%d" % v: truncation toward zero
Trunc(p) == IF p[1] >= 0 THEN p[1] \div p[2] ELSE -((-p[1]) \div p[2])

\* def mxplusb(exp1, act1, exp2, act2): m = (exp2 - exp1) / (act2 - act1);
\* b = exp1 - (m * act1); raises ZeroDivisionError when act2 = act1
MxplusbRaises(exp1, act1, exp2, act2) == act2 = act1

mxplusb(exp1, act1, exp2, act2) ==
    LET m == FDiv(FSub(exp2, exp1), FSub(act2, act1))
    IN  <<m, FSub(exp1, FMul(m, act1))>>

\* val = noiseval * mx + b
Line(n, slope, intercept) == FAdd(FMul(Tenths(n), slope), intercept)

\* test4.py: val = noiseval * mx + b; if(val > maxval): val = maxval;
\* "%d;%d;%d" % (val, 255-val, framecount % 255)
token_test4(n, slope, intercept, fc) ==
    LET raw == Line(n, slope, intercept)
        val == IF FGreater(raw, FInt(255)) THEN FInt(255) ELSE raw
    IN  <<Trunc(val), Trunc(FSub(FInt(255), val)), fc % 255>>

\* test4_optimized.py: val = int(noiseval * mx + b); val = min(max(val, 0), 255)
\* test4_optimized_v2.py: val = int(...); if val < 0: val = 0 elif val > 255: val = 255
\* r, g, b_color = val, 255-val, framecount % 255
token_optimized(n, slope, intercept, fc) ==
    LET raw == Trunc(Line(n, slope, intercept))
        val == IF raw < 0 THEN 0 ELSE IF raw > 255 THEN 255 ELSE raw
    IN  <<val, 255 - val, fc % 255>>

Token(v, n, slope, intercept, fc) ==
    IF v = "test4" THEN token_test4(n, slope, intercept, fc)
    ELSE token_optimized(n, slope, intercept, fc)

\* The noise samples the render runs draw (tenths).
NoiseVals == {-MaxNoise, -10, -5, 0, 5, 10, MaxNoise}

\* `while True:` top: framecount += 1, then on to the render loops
FrameTop ==
    /\ ~crashed
    /\ pc = "loop"
    /\ framecount < MaxFrames
    /\ framecount' = framecount + 1
    /\ pc' = "render"
    /\ cellno' = 0
    /\ sampled' = {}
    /\ UNCHANGED <<variant, mx, b, minfound, maxfound, noiseval, token, seen, crashed>>

\* (mutant) the trackers follow the last sample
TrackMinLast(v, lo, n) == IF v = "test4" THEN n ELSE lo

\* minfound = min(minfound, noiseval) in test4.py; the optimized files have
\* no such statement, minfound keeps its initial value
TrackMin(v, lo, n) == IF v = "test4" /\ n < lo THEN n ELSE lo

\* maxfound = max(maxfound, noiseval) in test4.py only
TrackMax(v, hi, n) == IF v = "test4" /\ n > hi THEN n ELSE hi

\* one turn of `for x in range(width)`: sample, map, write the token;
\* test4.py also tracks minfound / maxfound here (the optimized files never do)
RenderCell(n) ==
    /\ ~crashed
    /\ pc = "render"
    /\ cellno < MaxCells
    /\ cellno' = cellno + 1
    /\ noiseval' = n
    /\ token' = Token(variant, n, mx, b, framecount)
    /\ minfound' = TrackMin(variant, minfound, n)
    /\ maxfound' = TrackMax(variant, maxfound, n)
    /\ sampled' = sampled \cup {n}
    /\ seen' = IF seen = <<>> THEN <<n, n>>
               ELSE <<IF n < seen[1] THEN n ELSE seen[1], IF n > seen[2] THEN n ELSE seen[2]>>
    /\ UNCHANGED <<variant, mx, b, framecount, pc, crashed>>

\* the end of the frame: [mx, b] = mxplusb(0, minfound, 255, maxfound),
\* every frame in test4.py, `if framecount % 10 == 0` in the optimized files
Recalibrate ==
    /\ ~crashed
    /\ pc = "render"
    /\ cellno = MaxCells
    /\ pc' = "loop"
    /\ IF variant = "test4" \/ framecount % 10 = 0
       THEN IF MxplusbRaises(FInt(0), Tenths(minfound), FInt(255), Tenths(maxfound))
            THEN crashed' = TRUE /\ UNCHANGED <<mx, b>>
            ELSE /\ mx' = mxplusb(FInt(0), Tenths(minfound), FInt(255), Tenths(maxfound))[1]
                 /\ b' = mxplusb(FInt(0), Tenths(minfound), FInt(255), Tenths(maxfound))[2]
                 /\ UNCHANGED crashed
       ELSE UNCHANGED <<mx, b, crashed>>
    /\ UNCHANGED <<variant, minfound, maxfound, framecount, cellno, noiseval, token,
                   sampled, seen>>

\* mx = 127.5; b = 127.5; minfound = 0.0; maxfound = 0.0; framecount = 0
IdleRender ==
    /\ mx = Frac(255, 2)
    /\ b = Frac(255, 2)
    /\ minfound = 0
    /\ maxfound = 0
    /\ framecount = 0
    /\ pc = "loop"
    /\ cellno = 0
    /\ noiseval = 0
    /\ token = <<>>
    /\ sampled = {}
    /\ seen = <<>>

\* ========================================================== frame rendering
\* One call of get_noise_cached / get_noise_optimized as a function of the
\* renderer: acc is [cache, vals, at, hits, misses], the dict, the values
\* returned so far, the coordinates looked up so far and v2's two counters.
LookupIn(acc, max, c, ndigits, d) ==
    IF IsHit(acc.cache, CacheKey(c, ndigits))
    THEN [cache |-> AfterHit(acc.cache, CacheKey(c, ndigits)),
          vals |-> Append(acc.vals, HitValue(acc.cache, CacheKey(c, ndigits), c)),
          at |-> Append(acc.at, c),
          hits |-> acc.hits + 1,
          misses |-> acc.misses]
    ELSE [cache |-> Store(IF CacheFull(acc.cache, max)
                          THEN DelKeys(acc.cache, ItemsToRemove(acc.cache, max, d))
                          ELSE acc.cache,
                          CacheKey(c, ndigits), pnoise3(c[1], c[2], c[3])),
          vals |-> Append(acc.vals, pnoise3(c[1], c[2], c[3])),
          at |-> Append(acc.at, c),
          hits |-> acc.hits,
          misses |-> acc.misses + 1]

\* (mutant) z advances with the row
CellCoordZByRow(x, y, xoff, yoff, zoff) ==
    <<100 * x + xoff, 200 * y + yoff, 200 * y + zoff>>

\* xpos = x/10 + xoffset; ypos = y/5 + yoffset; zpos = zoffset   (thousandths)
CellCoord(x, y, xoff, yoff, zoff) ==
    <<100 * x + xoff, 200 * y + yoff, zoff>>

\* for y in range(self.height): for x in range(self.width): cell number i
\* (from 1) is column (i - 1) % w of row (i - 1) // w
CellAt(i, w, args) ==
    CellCoord((i - 1) % w, (i - 1) \div w, args[1], args[2], args[3])

\* The renderer after the first i cells of the frame.
RECURSIVE RenderCells(_, _, _, _, _, _)
RenderCells(acc, max, v, w, args, i) ==
    IF i = 0 THEN acc
    ELSE CHOOSE r \in { LookupIn(before, max, CellAt(i, w, args), Digits(v), Divisor(v)) :
                          before \in {RenderCells(acc, max, v, w, args, i - 1)} } : TRUE

\* The row strings: row y is the concatenation of the tokens of its cells,
\* kept as the sequence of their colour triples.
RowsOf(v, vals, w, h, slope, intercept, fc) ==
    [y \in 1..h |-> [x \in 1..w |-> Token(v, vals[(y - 1) * w + x], slope, intercept, fc)]]

\* NoiseRenderer.render_frame_optimized / OptimizedNoiseRenderer.render_frame_fast
\* (xoffset, yoffset, zoffset, mx, b, framecount), args = the offsets and framecount
render_frame(args) ==
    /\ renders < MaxRenders
    /\ renders' = renders + 1
    /\ frame_args' = args
    /\ \E done \in { RenderCells([cache |-> noise_cache, vals |-> <<>>, at |-> <<>>,
                                  hits |-> cache_hits, misses |-> cache_misses],
                                 cache_max_size, variant, width, args, width * height) } :
          /\ noise_cache' = done.cache
          /\ rows' = RowsOf(variant, done.vals, width, height, mx, b, args[4])
          /\ lookups' = [i \in 1..Len(done.at) |-> [at |-> done.at[i], value |-> done.vals[i]]]
          /\ cache_hits' = IF variant = "test4_optimized_v2" THEN done.hits ELSE cache_hits
          /\ cache_misses' = IF variant = "test4_optimized_v2" THEN done.misses ELSE cache_misses
    /\ UNCHANGED <<variant, cache_max_size, width, height, mx, b>>

\* The frames asked of a renderer, <<xoffset, yoffset, zoffset, framecount>>:
\* a frame, the same frame shifted by less than a key, a frame two columns to
\* the right, and a frame at another depth and height.
FrameInputs(v) ==
    { <<0, 0, 0, 1>>,
      <<4 * Grain(v), 0, 0, 1>>,
      <<200, 0, 0, 1>>,
      <<0, 3 * Grain(v), 20 * Grain(v), 2>> }

IdleFrame ==
    /\ rows = <<>>
    /\ frame_args = <<>>
    /\ lookups = <<>>
    /\ renders = 0

\* ============================================================ mouse decoder
\* Characters are one-character strings; ESC stands for the byte \x1b.
ESC == "ESC"

Digit == [c \in {"0", "1", "2", "3", "4", "5", "6", "7", "8", "9"} |->
            CASE c = "0" -> 0 [] c = "1" -> 1 [] c = "2" -> 2 [] c = "3" -> 3
              [] c = "4" -> 4 [] c = "5" -> 5 [] c = "6" -> 6 [] c = "7" -> 7
              [] c = "8" -> 8 [] c = "9" -> 9]

\* s.replace(c, "") for each single character c of drop
RECURSIVE StripChars(_, _)
StripChars(s, drop) ==
    IF s = <<>> THEN <<>>
    ELSE IF Head(s) \in drop THEN StripChars(Tail(s), drop)
    ELSE <<Head(s)>> \o StripChars(Tail(s), drop)

IsPrefix(p, s) == Len(p) <= Len(s) /\ SubSeq(s, 1, Len(p)) = p

\* s.replace(sub, ""): every occurrence of the substring, left to right
RECURSIVE RemoveSub(_, _)
RemoveSub(s, sub) ==
    IF s = <<>> THEN <<>>
    ELSE IF IsPrefix(sub, s) THEN RemoveSub(SubSeq(s, Len(sub) + 1, Len(s)), sub)
    ELSE <<Head(s)>> \o RemoveSub(Tail(s), sub)

\* s.split(sep) for a one-character separator: one more piece than separators
RECURSIVE Split(_, _)
Split(s, sep) ==
    IF \A i \in 1..Len(s) : s[i] # sep THEN <<s>>
    ELSE LET i == CHOOSE j \in 1..Len(s) :
                      s[j] = sep /\ \A k \in 1..(j - 1) : s[k] # sep
         IN  <<SubSeq(s, 1, i - 1)>> \o Split(SubSeq(s, i + 1, Len(s)), sep)

\* int(s) succeeds: a non-empty run of decimal digits (the inputs carry no
\* sign, blank or underscore)
IsInt(s) == s # <<>> /\ \A i \in 1..Len(s) : s[i] \in DOMAIN Digit

\* int(s)
RECURSIVE IntOf(_)
IntOf(s) == IF s = <<>> THEN 0 ELSE 10 * IntOf(SubSeq(s, 1, Len(s) - 1)) + Digit[s[Len(s)]]

\* instream.replace("\x1b", "").replace("[", "").replace("<", "").split("M")
\* in test4.py and test4_optimized.py;
\* instream.replace("\x1b[<", "").split("M") in test4_optimized_v2.py
Segments(v, chunk) ==
    IF v = "test4_optimized_v2"
    THEN Split(RemoveSub(chunk, <<ESC, "[", "<">>), "M")
    ELSE Split(StripChars(chunk, {ESC, "[", "<"}), "M")

\* The state an entry acts on and what it did: kind is
\*   "Move"   mousex and mousey were both set,
\*   "ZMinus" / "ZPlus"  zvelocity went down / up one step,
\*   "Unrecognized"  no branch ran to its end,
\*   "Raised" an exception left the loop (and the process),
\*   "Skip"   the entry is empty.
Out(kind, x, y, z) == [kind |-> kind, mousex |-> x, mousey |-> y, zvelocity |-> z]

\* (mutant) the two wheel branches exchanged
DispatchWheelSwapped(metainfo, x, y, z, bad) ==
    IF metainfo[1] = <<"3", "5">>
    THEN IF Len(metainfo) < 2 \/ ~IsInt(metainfo[2]) THEN Out(bad, x, y, z)
         ELSE IF Len(metainfo) < 3 \/ ~IsInt(metainfo[3])
              THEN Out(bad, IntOf(metainfo[2]), y, z)
              ELSE Out("Move", IntOf(metainfo[2]), IntOf(metainfo[3]), z)
    ELSE IF metainfo[1] = <<"6", "5">> THEN Out("ZPlus", x, y, z + 1)
    ELSE IF metainfo[1] = <<"6", "4">> THEN Out("ZMinus", x, y, z - 1)
    ELSE Out("Unrecognized", x, y, z)

\* if metainfo[0] == "35": mousex = int(metainfo[1]); mousey = int(metainfo[2])
\* elif metainfo[0] == "65": zvelocity -= 0.01
\* elif metainfo[0] == "64": zvelocity += 0.01
\* bad is what an IndexError or ValueError in the move branch turns into.
Dispatch(metainfo, x, y, z, bad) ==
    IF metainfo[1] = <<"3", "5">>
    THEN IF Len(metainfo) < 2 \/ ~IsInt(metainfo[2]) THEN Out(bad, x, y, z)
         ELSE IF Len(metainfo) < 3 \/ ~IsInt(metainfo[3])
              THEN Out(bad, IntOf(metainfo[2]), y, z)
              ELSE Out("Move", IntOf(metainfo[2]), IntOf(metainfo[3]), z)
    ELSE IF metainfo[1] = <<"6", "5">> THEN Out("ZMinus", x, y, z - 1)
    ELSE IF metainfo[1] = <<"6", "4">> THEN Out("ZPlus", x, y, z + 1)
    ELSE Out("Unrecognized", x, y, z)

\* test4.py: the body of `for entry in instreamelements1`, no try
entry_test4(entry, x, y, z) ==
    IF entry = <<>> THEN Out("Skip", x, y, z)
    ELSE Dispatch(Split(entry, ";"), x, y, z, "Raised")

\* test4_optimized.py: at least three fields, try/except around the dispatch
entry_optimized(entry, x, y, z) ==
    IF entry = <<>> THEN Out("Skip", x, y, z)
    ELSE LET metainfo == Split(entry, ";")
         IN  IF Len(metainfo) >= 3
             THEN Dispatch(metainfo, x, y, z, "Unrecognized")
             ELSE Out("Unrecognized", x, y, z)

\* test4_optimized_v2.py: only parts holding a ";", at least three fields
entry_v2(part, x, y, z) ==
    IF part = <<>> THEN Out("Skip", x, y, z)
    ELSE IF \E i \in 1..Len(part) : part[i] = ";"
    THEN LET elements == Split(part, ";")
         IN  IF Len(elements) >= 3
             THEN Dispatch(elements, x, y, z, "Unrecognized")
             ELSE Out("Unrecognized", x, y, z)
    ELSE Out("Unrecognized", x, y, z)

DecodeEntry(v, entry, x, y, z) ==
    IF v = "test4" THEN entry_test4(entry, x, y, z)
    ELSE IF v = "test4_optimized" THEN entry_optimized(entry, x, y, z)
    ELSE entry_v2(entry, x, y, z)

\* ----------------------------------------------------------- decoder inputs
Rec(body) == <<ESC, "[", "<">> \o body \o <<"M">>

Records ==
    << Rec(<<"3", "5", ";", "1", "0", ";", "5">>),      \* move to 10,5
       Rec(<<"6", "4">>),                                 \* the lone wheel code 64
       Rec(<<"g", "a", "r", "b", "a", "g", "e">>),        \* garbage
       Rec(<<"6", "4", ";", "3", ";", "7">>),             \* wheel, code 64
       Rec(<<"6", "5", ";", "3", ";", "7">>),             \* wheel, code 65
       Rec(<<"3", "5">>),                                 \* move with one field
       Rec(<<"3", "5", ";", "a", ";", "b">>),             \* move, no integer
       Rec(<<"3", "5", ";", "1", "0", ";", "x">>),        \* move, row no integer
       Rec(<<"0", ";", "3", ";", "7">>) >>                \* a button press

\* The chunk of the decoder example: move, lone 64, garbage.
ExampleChunk == Records[1] \o Records[2] \o Records[3]

RECURSIVE Concat(_)
Concat(ix) == IF ix = <<>> THEN <<>> ELSE Records[Head(ix)] \o Concat(Tail(ix))

\* What a chunk boundary leaves at the end of a chunk: the head of a record
\* whose M terminator has not arrived yet.
Fragments ==
    { <<ESC, "[", "<", "3", "5", ";", "1", "0", ";", "1">>,   \* 35;10;1 of 35;10;15M
      <<ESC, "[", "<", "3", "5", ";", "1">>,                  \* 35;1 of 35;10;15M
      <<ESC, "[", "<", "6", "4", ";", "3", ";">> }             \* 64;3; of 64;3;7M

\* What may precede a record in a chunk: the tail of a record split by the
\* previous chunk boundary, a release record (terminated by m), a stray byte.
Junk ==
    { <<"5", "M">>,
      <<ESC, "[", "<", "0", ";", "1", "0", ";", "5", "m">>,
      <<"q">> }

\* Index sequences of n1..n2 records.
Picks(n1, n2) == UNION {[1..n -> 1..Len(Records)] : n \in n1..n2}

\* The chunks a frame may read: the example, up to MaxRecords records, records
\* followed by a fragment, junk followed by records.
Chunks ==
    {ExampleChunk} \cup
    {Concat(ix) : ix \in UNION {[1..n -> 1..Len(Records)] : n \in 1..MaxRecords}} \cup
    {Concat(ix) \o f : ix \in Picks(0, MaxRecords - 1), f \in Fragments} \cup
    {j \o Concat(ix) : j \in Junk, ix \in Picks(1, MaxRecords - 1)}

\* ------------------------------------------------------------ decoder steps
\* instream = ...; instreamelements1 = ....split("M")   (if instream)
ReadChunk(chunk) ==
    /\ ~crashed
    /\ pending = <<>>
    /\ chunks < MaxChunks
    /\ chunks' = chunks + 1
    /\ pending' = Segments(variant, chunk)
    /\ events' = <<>>
    /\ UNCHANGED <<variant, mousex, mousey, zvelocity, crashed>>

\* one turn of `for entry in instreamelements1`
DecodeStep ==
    /\ ~crashed
    /\ pending # <<>>
    /\ LET out == DecodeEntry(variant, Head(pending), mousex, mousey, zvelocity)
       IN  /\ mousex' = out.mousex
           /\ mousey' = out.mousey
           /\ zvelocity' = out.zvelocity
           /\ crashed' = (out.kind = "Raised")
           /\ events' = IF out.kind = "Skip" THEN events ELSE Append(events, out.kind)
    /\ pending' = Tail(pending)
    /\ UNCHANGED <<variant, chunks>>

\* =============================================================== main loop
\* What screen.getch() returns: the quit key or anything else (no key, -1).
Events == {"q", "other"}

\* <<rows, columns>> of the terminal; the grid is one row shorter, so a
\* terminal of one row has a grid of height 0.
TermSizes == {<<1, 4>>, <<3, 4>>, <<4, 6>>}

\* height, width = screen.getmaxyx(); height = height - 1
GridOf(size) == [width |-> size[2], height |-> size[1] - 1]

\* NoiseRenderer(width, height) / OptimizedNoiseRenderer(width, height)
\* constructed in frame `born` (0: before the loop)
NewRenderer(w, h, born) == [width |-> w, height |-> h, born |-> born]

\* test4.py: height, width = screen.getmaxyx(); height = height - 1, every frame
size_check_test4(fc) ==
    /\ width' = GridOf(term).width
    /\ height' = GridOf(term).height
    /\ UNCHANGED <<renderer, last_size_check, noise_cache>>

\* test4_optimized.py: if framecount % 30 == 0: read the size; a renderer of
\* another size is replaced by a new one
size_check_optimized(fc) ==
    IF fc % 30 = 0
    THEN /\ width' = GridOf(term).width
         /\ height' = GridOf(term).height
         /\ IF renderer.width # width' \/ renderer.height # height'
            THEN renderer' = NewRenderer(width', height', fc) /\ noise_cache' = <<>>
            ELSE UNCHANGED <<renderer, noise_cache>>
         /\ UNCHANGED last_size_check
    ELSE UNCHANGED <<width, height, renderer, last_size_check, noise_cache>>

\* test4_optimized_v2.py: if framecount - last_size_check > 30: read the
\* size; if it differs, width, height and the renderer are replaced
size_check_v2(fc) ==
    IF fc - last_size_check > 30
    THEN /\ IF GridOf(term).width # width \/ GridOf(term).height # height
            THEN /\ width' = GridOf(term).width
                 /\ height' = GridOf(term).height
                 /\ renderer' = NewRenderer(width', height', fc)
                 /\ noise_cache' = <<>>
            ELSE UNCHANGED <<width, height, renderer, noise_cache>>
         /\ last_size_check' = fc
    ELSE UNCHANGED <<width, height, renderer, last_size_check, noise_cache>>

\* while True: framecount += 1; event = screen.getch(); the size check
LoopTop(ev) ==
    /\ ~crashed
    /\ pc = "loop"
    /\ framecount' = framecount + 1
    /\ event' = ev
    /\ cellno' = 0
    /\ CASE variant = "test4" -> size_check_test4(framecount')
         [] variant = "test4_optimized" -> size_check_optimized(framecount')
         [] OTHER -> size_check_v2(framecount')
    /\ pc' = "input"
    /\ UNCHANGED <<variant, decodeVars, mx, b, minfound, maxfound, noiseval, token, sampled,
                   seen, xvelocity, yvelocity, frameVars, term, xoffset, yoffset, zoffset,
                   resizes>>

\* `for entry in instreamelements1` to its end, or to the entry that raises:
\* out is the Out record of the last entry decoded, kinds the events so far.
RECURSIVE DecodeAll(_, _, _, _)
DecodeAll(v, segs, i, st) ==
    IF i = 0 THEN st
    ELSE CHOOSE r \in UNION {
             { IF before.out.kind = "Raised" THEN before
               ELSE [out |-> o, kinds |-> Append(before.kinds, o.kind)] :
               o \in {DecodeEntry(v, segs[i], before.out.mousex, before.out.mousey,
                                  before.out.zvelocity)} } :
             before \in {DecodeAll(v, segs, i - 1, st)} } : TRUE

\* The chunks a frame of the loop runs may read: a move, two wheel records,
\* a move and a wheel record, the decoder example, a move with one field.
LoopChunks ==
    { Records[1], Records[4] \o Records[4], Records[1] \o Records[5], ExampleChunk,
      Records[6] }

\* instream = ... (nothing to read: ""); if instream: parse every entry
LoopInput(chunk) ==
    /\ ~crashed
    /\ pc = "input"
    /\ chunk # <<>> => (chunks < MaxChunks /\ chunk \in LoopChunks)
    /\ chunks' = IF chunk = <<>> THEN chunks ELSE chunks + 1
    /\ \E done \in { IF chunk = <<>>
                     THEN [out |-> Out("Skip", mousex, mousey, zvelocity), kinds |-> <<>>]
                     ELSE DecodeAll(variant, Segments(variant, chunk),
                                    Len(Segments(variant, chunk)),
                                    [out |-> Out("Skip", mousex, mousey, zvelocity),
                                     kinds |-> <<>>]) } :
          /\ mousex' = done.out.mousex
          /\ mousey' = done.out.mousey
          /\ zvelocity' = done.out.zvelocity
          /\ crashed' = (done.out.kind = "Raised")
          /\ events' = done.kinds
    /\ pc' = "quit"
    /\ UNCHANGED <<variant, pending, cacheVars, mx, b, minfound, maxfound, framecount, cellno,
                   noiseval, token, sampled, seen, velocityVars, frameVars, loopVars>>

\* (mutant) the quit key is not looked at
LoopQuitIgnored ==
    /\ ~crashed
    /\ pc = "quit"
    /\ pc' = "move"
    /\ UNCHANGED <<variant, decodeVars, cacheVars, mx, b, minfound, maxfound, framecount,
                   cellno, noiseval, token, sampled, seen, velocityVars, frameVars, loopVars>>

\* if event == ord("q"): break
LoopQuit ==
    /\ ~crashed
    /\ pc = "quit"
    /\ pc' = IF event = "q" THEN "done" ELSE "move"
    /\ UNCHANGED <<variant, decodeVars, cacheVars, mx, b, minfound, maxfound, framecount,
                   cellno, noiseval, token, sampled, seen, velocityVars, frameVars, loopVars>>

\* m = (exp2 - exp1) / (act2 - act1) in mxplusb(-1, 0, 1, size) divides by
\* size: ZeroDivisionError for a size of 0.  test4_optimized_v2.py has no fit.
VelocityRaises(v, size) == v # "test4_optimized_v2" /\ size = 0

\* the velocity recomputation, then xoffset += xvelocity; yoffset += yvelocity;
\* zoffset += zvelocity; the statements before one that raises have run
LoopMove ==
    /\ ~crashed
    /\ pc = "move"
    /\ IF VelocityRaises(variant, width)
       THEN /\ crashed' = TRUE
            /\ UNCHANGED <<xvelocity, yvelocity, xoffset, yoffset, zoffset, pc>>
       ELSE IF VelocityRaises(variant, height)
       THEN /\ crashed' = TRUE
            /\ xvelocity' = Velocity(variant, mousex, width)
            /\ UNCHANGED <<yvelocity, xoffset, yoffset, zoffset, pc>>
       ELSE /\ \E xv \in {Velocity(variant, mousex, width)},
                  yv \in {Velocity(variant, mousey, height)} :
                  /\ xvelocity' = xv
                  /\ yvelocity' = yv
                  /\ xoffset' = FlAdd(xoffset, xv)
                  /\ yoffset' = FlAdd(yoffset, yv)
            /\ zoffset' = zoffset + zvelocity
            /\ pc' = "paint"
            /\ UNCHANGED crashed
    /\ UNCHANGED <<variant, mousex, mousey, zvelocity, pending, events, chunks, cacheVars, mx,
                   b, minfound, maxfound, framecount, cellno, noiseval, token, sampled, seen,
                   width, height, frameVars, event, term, renderer, last_size_check, resizes>>

\* The noise the cells of a frame of the loop runs sample (tenths).
LoopNoise == {-5, 5}

\* The frame is rendered and written: by the loop itself over width x height
\* in test4.py, by the renderer over its own width x height in the optimized
\* files.  The cells are followed in the render and frame runs; here every
\* cell of the frame samples n, and a frame of height 0 has no cell.
LoopRender(n) ==
    /\ ~crashed
    /\ pc = "paint"
    /\ renders' = renders + 1
    /\ frame_args' = <<xoffset, yoffset, zoffset, framecount>>
    /\ lookups' = IF variant = "test4" THEN <<width, height>>
                  ELSE <<renderer.width, renderer.height>>
    /\ IF lookups'[1] * lookups'[2] = 0
       THEN /\ n = CHOOSE k \in LoopNoise : TRUE
            /\ sampled' = {}
            /\ UNCHANGED <<noiseval, token, minfound, maxfound>>
       ELSE /\ noiseval' = n
            /\ token' = Token(variant, n, mx, b, framecount)
            /\ minfound' = TrackMin(variant, minfound, n)
            /\ maxfound' = TrackMax(variant, maxfound, n)
            /\ sampled' = {n}
    /\ cellno' = MaxCells
    /\ pc' = "render"
    /\ UNCHANGED <<variant, decodeVars, cacheVars, mx, b, framecount, seen, velocityVars, rows,
                   loopVars>>

\* The terminal is resized (between two frames, as far as the loop can tell).
Resize(size) ==
    /\ pc = "loop"
    /\ ~crashed
    /\ resizes < MaxResizes
    /\ size # term
    /\ term' = size
    /\ resizes' = resizes + 1
    /\ UNCHANGED <<variant, decodeVars, cacheVars, renderVars, velocityVars, frameVars, event,
                   renderer, last_size_check, xoffset, yoffset, zoffset>>

\* xoffset = 0; yoffset = 0; zoffset = 0; last_size_check = 0; no renderer
\* outside the loop runs
IdleLoop ==
    /\ event = "other"
    /\ term = <<2, MaxCells>>
    /\ renderer = NewRenderer(MaxCells, 1, 0)
    /\ last_size_check = 0
    /\ xoffset = FlOfInt(0)
    /\ yoffset = FlOfInt(0)
    /\ zoffset = 0
    /\ resizes = 0

IdleDecode ==
    /\ mousex = 0
    /\ mousey = 0
    /\ zvelocity = 0
    /\ pending = <<>>
    /\ crashed = FALSE
    /\ events = <<>>
    /\ chunks = 0

InitDecode ==
    /\ variant \in {"test4", "test4_optimized", "test4_optimized_v2"}
    /\ IdleDecode
    /\ IdleCache
    /\ IdleRender
    /\ IdleVelocity
    /\ IdleFrame
    /\ IdleLoop

NextDecode ==
    \/ \E chunk \in Chunks : ReadChunk(chunk) /\ UNCHANGED <<cacheVars, renderVars, velocityVars, frameVars, loopVars>>
    \/ DecodeStep /\ UNCHANGED <<cacheVars, renderVars, velocityVars, frameVars, loopVars>>

SpecDecode == InitDecode /\ [][NextDecode]_vars

InitCache ==
    /\ variant \in {"test4_optimized", "test4_optimized_v2"}
    /\ cache_max_size \in 1..MaxCacheMax
    /\ noise_cache = <<>>
    /\ cache_hits = 0
    /\ cache_misses = 0
    /\ noise_calls = 0
    /\ fresh = 0
    /\ calls_before = 0
    /\ arg = <<>>
    /\ ret = 0
    /\ age = <<>>
    /\ was_hit = FALSE
    /\ stale_hit = FALSE
    /\ evicted = <<>>
    /\ returned = [k \in AllKeys(variant) |-> {}]
    /\ since = [k \in AllKeys(variant) |-> {}]
    /\ IdleDecode
    /\ IdleRender
    /\ IdleVelocity
    /\ IdleFrame
    /\ IdleLoop

\* The caller's choice of the next coordinate: a used one, or the next unused.
UseCoord(i) ==
    /\ i <= fresh + 1
    /\ fresh' = (IF i > fresh THEN i ELSE fresh)

NextCache ==
    \/ \E i \in 1..Len(BaseCoords) :
            UseCoord(i) /\ get_noise_cached(CoordAt("test4_optimized", i))
                        /\ UNCHANGED <<decodeVars, renderVars, velocityVars, frameVars, loopVars>>
    \/ \E i \in 1..Len(BaseCoords) :
            UseCoord(i) /\ get_noise_optimized(CoordAt("test4_optimized_v2", i))
                        /\ UNCHANGED <<decodeVars, renderVars, velocityVars, frameVars, loopVars>>

SpecCache == InitCache /\ [][NextCache]_vars

\* The render runs: frames of MaxCells cells, each cell's noise drawn from
\* NoiseVals, the mouse left alone.
InitRender ==
    /\ variant \in {"test4", "test4_optimized", "test4_optimized_v2"}
    /\ IdleDecode
    /\ IdleCache
    /\ IdleRender
    /\ IdleVelocity
    /\ IdleFrame
    /\ IdleLoop

RenderIdle ==
    UNCHANGED <<cacheVars, mousex, mousey, zvelocity, pending, events, chunks, velocityVars,
                frameVars, loopVars>>

NextRender ==
    \/ FrameTop /\ RenderIdle
    \/ \E n \in NoiseVals : RenderCell(n) /\ RenderIdle
    \/ Recalibrate /\ RenderIdle

SpecRender == InitRender /\ [][NextRender]_vars

\* The velocity runs: a grid and a mouse position, then the recomputation.
InitVelocity ==
    /\ variant \in {"test4", "test4_optimized", "test4_optimized_v2"}
    /\ width \in 1..MaxWidth
    /\ height \in 1..MaxHeight
    /\ mousex \in 0..width
    /\ mousey \in 0..height
    /\ zvelocity = 0
    /\ pending = <<>>
    /\ crashed = FALSE
    /\ events = <<>>
    /\ chunks = 0
    /\ xvelocity = FlDivInt(1, 100)
    /\ yvelocity = FlDivInt(1, 100)
    /\ IdleCache
    /\ IdleRender
    /\ IdleFrame
    /\ IdleLoop

NextVelocity ==
    UpdateVelocity /\ UNCHANGED <<cacheVars, renderVars, frameVars, loopVars, zvelocity,
                                  pending, crashed, events, chunks>>

SpecVelocity == InitVelocity /\ [][NextVelocity]_vars

\* The frame runs: one renderer of a fixed grid and cache size renders up to
\* MaxRenders frames, with the initial slope and intercept.
InitFrame ==
    /\ variant \in {"test4_optimized", "test4_optimized_v2"}
    /\ cache_max_size \in 1..MaxCacheMax
    /\ noise_cache = <<>>
    /\ cache_hits = 0
    /\ cache_misses = 0
    /\ noise_calls = 0
    /\ fresh = 0
    /\ calls_before = 0
    /\ arg = <<>>
    /\ ret = 0
    /\ age = <<>>
    /\ was_hit = FALSE
    /\ stale_hit = FALSE
    /\ evicted = <<>>
    /\ returned = <<>>
    /\ since = <<>>
    /\ width \in 1..MaxCols
    /\ height \in 1..MaxRows
    /\ xvelocity = FlDivInt(1, 100)
    /\ yvelocity = FlDivInt(1, 100)
    /\ IdleDecode
    /\ IdleRender
    /\ IdleFrame
    /\ IdleLoop

NextFrame ==
    \E args \in FrameInputs(variant) :
        /\ render_frame(args)
        /\ UNCHANGED <<decodeVars, noise_calls, fresh, calls_before, arg, ret, age, was_hit,
                       stale_hit, evicted, returned, since, minfound, maxfound, framecount,
                       pc, cellno, noiseval, token, sampled, seen, xvelocity, yvelocity,
                       loopVars>>

SpecFrame == InitFrame /\ [][NextFrame]_vars

\* The loop runs: the terminal has one of TermSizes when the program starts;
\* the loop reads it, a key and a chunk every frame.
InitLoop ==
    /\ variant \in {"test4", "test4_optimized", "test4_optimized_v2"}
    /\ term \in TermSizes
    /\ width = GridOf(term).width
    /\ height = GridOf(term).height
    /\ renderer = NewRenderer(width, height, 0)
    /\ xvelocity = FlDivInt(1, 100)
    /\ yvelocity = FlDivInt(1, 100)
    /\ event = "other"
    /\ last_size_check = 0
    /\ xoffset = FlOfInt(0)
    /\ yoffset = FlOfInt(0)
    /\ zoffset = 0
    /\ resizes = 0
    /\ IdleDecode
    /\ IdleCache
    /\ IdleRender
    /\ IdleFrame

\* The steps of the program, for frames up to `last`.
LoopStep(last) ==
    \/ \E ev \in Events :
          /\ framecount < last
          /\ LoopTop(ev)
          /\ UNCHANGED <<cache_max_size, cache_hits, cache_misses, noise_calls, fresh,
                         calls_before, arg, ret, age, was_hit, stale_hit, evicted, returned,
                         since>>
    \/ \E chunk \in LoopChunks \cup {<<>>} : LoopInput(chunk)
    \/ LoopQuit
    \/ LoopMove
    \/ \E n \in LoopNoise : LoopRender(n)
    \/ Recalibrate /\ UNCHANGED <<cacheVars, mousex, mousey, zvelocity, pending, events, chunks,
                                   velocityVars, frameVars, loopVars>>

NextLoop ==
    \/ LoopStep(MaxLoopFrames)
    \/ \E size \in TermSizes : Resize(size)

SpecLoop == InitLoop /\ [][NextLoop]_vars

\* The resize runs: the two files that keep a renderer, followed past their
\* first size check.
InitResize == InitLoop /\ variant # "test4"

\* The program takes its next step: every step of LoopStep, and no resize,
\* changes pc or crashed, and one is possible until the loop has ended, by
\* the quit key or an exception, or has reached the last frame followed.
ProgramStep ==
    /\ ~crashed
    /\ pc # "done"
    /\ pc = "loop" => framecount < MaxSizeFrames
    /\ pc' \in {"loop", "input", "quit", "move", "paint", "render", "done"}
    /\ crashed' \in BOOLEAN

NextResize ==
    \/ LoopStep(MaxSizeFrames)
    \/ \E size \in TermSizes : Resize(size)

\* The program runs by itself (screen.nodelay(1): getch() does not block,
\* stdin is read only when select says it is ready, sleep returns), so its
\* next step is always taken; the terminal is resized or not.
SpecResize == InitResize /\ [][NextResize]_vars /\ WF_<<pc, crashed>>(ProgramStep)

\* ================================================================ claims
\* The key of a coordinate under the running variant's rounding.
KeyOf(c) == CacheKey(c, Digits(variant))

\* The configured eviction batch of the running variant.
Batch == cache_max_size \div Divisor(variant)

\* The last step was a lookup that missed.
Missed == noise_calls' = noise_calls + 1

\* C1 (as claimed): the number of cached entries never exceeds
\* cache_max_size, for every configured cache_max_size >= 1.
C1_EvictionBound == Len(noise_cache) <= cache_max_size

\* C2 (as claimed): any two lookups whose coordinates quantize to the same
\* key return the same value, over any sequence of lookups, evictions included.
C2_KeyAliasing == \A k \in DOMAIN returned : Cardinality(returned[k]) <= 1

\* C2 (amended): two lookups whose coordinates quantize to the same key return
\* the same value when the key stays in the cache from the first lookup to the
\* second (it is not evicted in between).
C2_KeyAliasingWhileCached == \A k \in DOMAIN since : Cardinality(since[k]) <= 1

\* A hit by a coordinate other than the one that inserted the key: the value
\* returned is not the noise at the lookup's own coordinate.
C2_Witness == was_hit /\ ret # pnoise3(arg[1], arg[2], arg[3])

\* C3: a lookup whose key is present returns the stored value, makes no
\* noise-source call and leaves the dict (keys, values, order) as it was; two
\* consecutive lookups of one key make one noise-source call when the first
\* missed, and none when it hit.
C3_CacheHit ==
    [][ /\ IsHit(noise_cache, KeyOf(arg')) =>
              /\ ret' = Value(noise_cache, KeyOf(arg'))
              /\ noise_calls' = noise_calls
              /\ noise_cache' = noise_cache
        /\ (arg # <<>> /\ KeyOf(arg') = KeyOf(arg)) =>
              /\ noise_calls' = noise_calls
              /\ noise_calls' - calls_before = (IF was_hit THEN 0 ELSE 1)
      ]_vars

\* A hit on an entry that is not the newest of at least two.
C3_Witness ==
    /\ was_hit
    /\ Len(noise_cache) >= 2
    /\ noise_cache[Len(noise_cache)].key # KeyOf(arg)
    /\ noise_calls = calls_before

\* C4: a miss at size = cache_max_size removes exactly the batch
\* (cache_max_size // 5, resp. // 2) and inserts the new key, leaving
\* cache_max_size - batch + 1 entries; a miss at size < cache_max_size removes
\* nothing and grows the cache by one.
C4_BatchEviction ==
    [][ Missed =>
          /\ Len(noise_cache) = cache_max_size =>
                /\ Len(evicted') = Batch
                /\ Keys(noise_cache') = (Keys(noise_cache) \ {evicted'[i] : i \in 1..Batch})
                                            \cup {KeyOf(arg')}
                /\ Len(noise_cache') = cache_max_size - Batch + 1
          /\ Len(noise_cache) < cache_max_size =>
                /\ evicted' = <<>>
                /\ Keys(noise_cache') = Keys(noise_cache) \cup {KeyOf(arg')}
                /\ Len(noise_cache') = Len(noise_cache) + 1
      ]_vars

\* A miss at a full cache has just removed a batch of two.
C4_Witness ==
    /\ Len(evicted) = 2
    /\ Batch = 2
    /\ Len(noise_cache) = cache_max_size - 1
    /\ ~was_hit

Entry == Head(pending)

Fields == Split(Entry, ";")

\* A step of the decoder over a non-empty entry.
Decoding == pending # <<>> /\ Entry # <<>>

MouseUnchanged == mousex' = mousex /\ mousey' = mousey

\* The entries of the decoder example, in either stripping: 35;10;5, 64,
\* garbage and the empty piece after the last M.
ExampleEntries == Segments(variant, ExampleChunk)

\* The decoder is about to visit entry k of the example chunk.
AtExample(k) ==
    /\ pending = SubSeq(ExampleEntries, k, Len(ExampleEntries))
    /\ Len(events) = (IF k = 4 THEN 3 ELSE k - 1)

\* C7 (as claimed): decoding the chunk "ESC[<35;10;5M ESC[<64M ESC[<garbageM"
\* yields exactly three events in order: Move{10,5}, a wheel event that changes
\* zvelocity by one step, Unrecognized; the empty piece after the last M yields
\* none; nothing raises.
C7_DecoderExample ==
    [][ /\ AtExample(1) =>
              /\ mousex' = 10 /\ mousey' = 5 /\ zvelocity' = zvelocity
              /\ events' = Append(events, "Move")
        /\ AtExample(2) =>
              /\ MouseUnchanged
              /\ \/ zvelocity' = zvelocity + 1 /\ events' = Append(events, "ZPlus")
                 \/ zvelocity' = zvelocity - 1 /\ events' = Append(events, "ZMinus")
        /\ AtExample(3) =>
              /\ MouseUnchanged /\ zvelocity' = zvelocity
              /\ events' = Append(events, "Unrecognized")
        /\ AtExample(4) =>
              /\ MouseUnchanged /\ zvelocity' = zvelocity
              /\ events' = events
        /\ (\E k \in 1..4 : AtExample(k)) => ~crashed'
      ]_vars

\* A well-formed move record: 35;col;row with integer col and row.
IsMove == Len(Fields) >= 3 /\ Fields[1] = <<"3", "5">> /\ IsInt(Fields[2]) /\ IsInt(Fields[3])

\* C8 (as claimed): decoding never raises, whatever the chunk, and the
\* entries after a malformed one are still decoded and applied.
C8_NeverAborts ==
    [][ pending # <<>> =>
          /\ ~crashed'
          /\ pending' = Tail(pending)
          /\ (Entry # <<>> /\ IsMove) =>
                mousex' = IntOf(Fields[2]) /\ mousey' = IntOf(Fields[3])
      ]_vars

\* What the decoding policy calls Unrecognized: fewer than three fields, a
\* column or row that is no integer, or a code other than 35, 64, 65.
IsUnrecognized ==
    \/ Len(Fields) < 3
    \/ ~IsInt(Fields[2])
    \/ ~IsInt(Fields[3])
    \/ Fields[1] \notin {<<"3", "5">>, <<"6", "4">>, <<"6", "5">>}

\* C9 (as claimed): an Unrecognized record leaves mousex, mousey and
\* zvelocity as they were.
C9_UnrecognizedChangesNothing ==
    [][ (Decoding /\ IsUnrecognized) => (MouseUnchanged /\ zvelocity' = zvelocity) ]_vars

\* A wheel record as the terminal sends it: code;col;row.
IsWheel(code) == Len(Fields) >= 3 /\ Fields[1] = code

AtFragment ==
    /\ Len(pending) = 1
    /\ \E f \in Fragments : Entry = Segments(variant, f)[1]

\* C11 (as claimed): the partial record after the last M terminator of a chunk
\* produces no move and no wheel event (the code has no event objects: an
\* entry no branch acts on is recorded here as "Unrecognized"), changes none
\* of mousex, mousey, zvelocity, and raises nothing.
C11_FragmentDropped ==
    [][ AtFragment =>
          /\ MouseUnchanged /\ zvelocity' = zvelocity
          /\ events' \in {events, Append(events, "Unrecognized")}
          /\ ~crashed'
      ]_vars

\* The entry that holds the well-formed record 35;10;5 (Records[1]) behind a
\* piece of junk is being visited.
AfterJunk ==
    /\ pending # <<>>
    /\ \E j \in Junk :
          LET segs == Segments(variant, j \o Records[1])
          IN  Entry = segs[Len(segs) - 1]

\* C12 (as claimed): a complete record ESC [ < 35 ; 10 ; 5 M that follows a
\* partial or malformed record in the chunk still sets mousex = 10 and
\* mousey = 5.
C12_KeepsSync ==
    [][ AfterJunk => (mousex' = 10 /\ mousey' = 5 /\ ~crashed') ]_vars

\* ----------------------------------------------------------------- colour
\* C6 (as claimed): in every variant the first colour channel of a cell is an
\* integer in [0, 255], whatever the noise value, slope and intercept.
C6_Clamp == token # <<>> => token[1] \in 0..255

\* ------------------------------------------------------------ auto-exposure
\* Every cell of the frame has been rendered (true until the next frame starts).
FrameRendered == framecount > 0 /\ cellno = MaxCells

\* C13 (as claimed): after a frame has been rendered, every noise value sampled
\* for it lies between minfound and maxfound, in every variant.
C13_ExtremaTrack ==
    FrameRendered => \A n \in sampled : minfound <= n /\ n <= maxfound

\* C14 (as claimed): no step of the frame loop raises: in particular the line
\* fit of the recalibration never divides by zero.
C14_LoopNeverAborts == crashed = FALSE

\* The step is the end of a frame at which the recalibration is due.
RecalibrationDue ==
    /\ pc = "render" /\ cellno = MaxCells /\ pc' = "loop"
    /\ (variant = "test4" \/ framecount % 10 = 0)

\* C15 (as claimed): every recalibration yields a slope and intercept that map
\* minfound to 0 and maxfound to 255, minfound and maxfound being the smallest
\* and largest noise values sampled in all frames so far.
C15_RecalibrationFit ==
    [][ RecalibrationDue =>
          /\ ~crashed'
          /\ seen = <<minfound, maxfound>>
          /\ Line(minfound, mx', b') = FInt(0)
          /\ Line(maxfound, mx', b') = FInt(255)
      ]_vars

\* C16: minfound never increases and maxfound never decreases, whatever is
\* sampled later, and minfound <= 0 <= maxfound in every reachable state.
C16_Monotonic ==
    /\ [](minfound <= 0 /\ 0 <= maxfound)
    /\ [][minfound' <= minfound /\ maxfound' >= maxfound]_vars

\* test4.py has rendered a second frame of less extreme samples after the
\* extrema were reached: the trackers are still at the extremes.
C16_Witness ==
    /\ variant = "test4"
    /\ framecount >= 2
    /\ FrameRendered
    /\ sampled \subseteq {-5, 0, 5}
    /\ sampled # {}
    /\ minfound = -MaxNoise
    /\ maxfound = MaxNoise

\* ---------------------------------------------------------------- velocity
FlZero == FlOfInt(0)

\* C17 (as claimed): the velocity recomputation gives 0 for a mouse at the
\* exact centre, and for the mirrored mouse position (equally far on the other
\* side of the centre) the velocity of equal magnitude and opposite sign, in
\* every variant.
C17_VelocitySymmetry ==
    [][ /\ (2 * mousex = width) => xvelocity' = FlZero
        /\ (2 * mousey = height) => yvelocity' = FlZero
        /\ xvelocity' = FlNeg(Velocity(variant, width - mousex, width))
        /\ yvelocity' = FlNeg(Velocity(variant, height - mousey, height))
      ]_vars

\* ------------------------------------------------------------------ frames
\* What a renderer without a cache returns for the state of the last call:
\* every cell's noise is pnoise3 at the cell's own coordinate.
UncachedRows ==
    RowsOf(variant,
           [i \in 1..(width * height) |->
               pnoise3(CellAt(i, width, frame_args)[1], CellAt(i, width, frame_args)[2],
                       CellAt(i, width, frame_args)[3])],
           width, height, mx, b, frame_args[4])

\* C18 (as claimed): the rows a render returns depend only on the offsets,
\* slope, intercept, framecount and grid: they are what an uncached renderer
\* returns for that state, whatever frames were rendered before.
C18_RenderPure == renders > 0 => rows = UncachedRows

\* C19 (as claimed): rendering again on the same renderer with the identical
\* state returns rows identical to the first render's, for every cache size
\* and grid.
C19_ReRender ==
    [][ (renders > 0 /\ frame_args' = frame_args) => rows' = rows ]_vars

\* C20: a render returns height rows of width tokens each, in row-major
\* order, and makes exactly width * height lookups, the one for column x of
\* row y at (x/10 + xoffset, y/5 + yoffset, zoffset).
C20_FrameShape ==
    renders > 0 =>
        /\ Len(rows) = height
        /\ Len(lookups) = width * height
        /\ \A y \in 0..(height - 1) :
              /\ Len(rows[y + 1]) = width
              /\ \A x \in 0..(width - 1) :
                    /\ lookups[y * width + x + 1].at =
                          <<100 * x + frame_args[1], 200 * y + frame_args[2], frame_args[3]>>
                    /\ rows[y + 1][x + 1] =
                          Token(variant, lookups[y * width + x + 1].value, mx, b, frame_args[4])

\* The largest grid has been rendered at offsets that are not zero.
C20_Witness ==
    /\ renders > 0
    /\ width = MaxCols
    /\ height = MaxRows
    /\ frame_args[2] # 0
    /\ frame_args[3] # 0
    /\ Len(lookups) = MaxCols * MaxRows

\* ------------------------------------------------------------ recalibration
\* C23 (as claimed): mx and b are recomputed only at frames whose framecount
\* is a multiple of 10; every other frame leaves them unchanged, in every
\* variant.
C23_Cadence ==
    [][ framecount % 10 # 0 => (mx' = mx /\ b' = b) ]_vars

\* C24 (as claimed): in every token the second channel is 255 minus the
\* first, both lie in [0, 255], and the third is framecount mod 255, in every
\* variant.  (cellno > 0: the token was written in the frame that framecount
\* counts.)
C24_Channels ==
    (token # <<>> /\ cellno > 0) =>
        /\ token[2] = 255 - token[1]
        /\ token[1] \in 0..255
        /\ token[2] \in 0..255
        /\ token[3] = framecount % 255

\* ------------------------------------------------------------ cache values
\* C25: a lookup that inserts a key stores the noise of its own unquantized
\* coordinate (which quantizes to that key); no lookup changes the value of a
\* key that stays in the cache, and no key is held twice.  Hence every cached
\* value is the noise at the coordinate of the miss that inserted its key.
C25_ValuesFromMiss ==
    [][ /\ \A k \in Keys(noise_cache) \cap Keys(noise_cache') :
              Value(noise_cache', k) = Value(noise_cache, k)
        /\ \A k \in Keys(noise_cache') \ Keys(noise_cache) :
              /\ k = KeyOf(arg')
              /\ Value(noise_cache', k) = pnoise3(arg'[1], arg'[2], arg'[3])
        /\ Cardinality(Keys(noise_cache')) = Len(noise_cache')
      ]_vars

\* A lookup hit a key whose cached value is not the noise of the lookup's own
\* coordinate, with other entries inserted since: the value of the inserting
\* miss is still there.
C25_Witness ==
    /\ was_hit
    /\ ret # pnoise3(arg[1], arg[2], arg[3])
    /\ Value(noise_cache, KeyOf(arg)) = ret
    /\ Len(noise_cache) >= 3

\* -------------------------------------------------------------------- quit
\* C21: once the quit key is read (event = "q"), no step of that iteration or
\* after it integrates the offsets, recomputes the velocities, renders a frame
\* or begins another iteration, whatever the chunk of that frame held; the
\* quit check that follows the parsing ends the loop.
C21_Quit ==
    [][ event = "q" =>
          /\ UNCHANGED <<xoffset, yoffset, zoffset, xvelocity, yvelocity>>
          /\ UNCHANGED <<renders, frame_args, token, framecount, mx, b>>
          /\ pc' \in {"quit", "done"}
          /\ (pc = "quit" /\ ~crashed) => pc' = "done"
      ]_vars

\* The loop has ended in a frame, after rendered frames, whose chunk moved
\* the mouse and turned the wheel.
C21_Witness ==
    /\ pc = "done"
    /\ event = "q"
    /\ Len(events) >= 2
    /\ mousex = 10
    /\ zvelocity # 0
    /\ framecount >= 2
    /\ renders = framecount - 1

\* ------------------------------------------------------------- integration
\* C22: the step that follows a quit test that did not quit recomputes both
\* velocities from the current mouse position and grid size and then adds the
\* recomputed velocities and zvelocity to the offsets; it is taken once per
\* frame, whatever the frame's chunk held, and no other step changes a
\* velocity or an offset.
C22_Integration ==
    [][ /\ pc = "move" =>
              /\ ~crashed'
              /\ xvelocity' = Velocity(variant, mousex, width)
              /\ yvelocity' = Velocity(variant, mousey, height)
              /\ xoffset' = FlAdd(xoffset, xvelocity')
              /\ yoffset' = FlAdd(yoffset, yvelocity')
              /\ zoffset' = zoffset + zvelocity
              /\ pc' = "paint"
        /\ pc # "move" => UNCHANGED <<xvelocity, yvelocity, xoffset, yoffset, zoffset>>
        /\ (pc = "quit" /\ event # "q" /\ ~crashed) => pc' = "move"
        /\ pc' = "move" => (pc = "quit" /\ framecount' = framecount)
      ]_vars

\* ------------------------------------------------------------------ resize
\* The renderer has the dimensions of the grid of a terminal of `size`.
RendererFits(size) ==
    /\ renderer.width = GridOf(size).width
    /\ renderer.height = GridOf(size).height

\* Whenever a frame is rendered the renderer has the loop's width and height.
RendererFitsLoop ==
    pc \in {"paint", "render"} => (renderer.width = width /\ renderer.height = height)

\* C26: when the terminal size has changed for the last time (so that it
\* stays fixed from then on), the renderer is eventually (at the next size
\* check: at most 30 frames later in test4_optimized.py, 31 in
\* test4_optimized_v2.py) one of the dimensions of the terminal's grid -
\* unless the quit key ends the loop first, or the run is still going at the
\* last frame followed.
C26_Resize ==
    (resizes = MaxResizes) ~>
        (\/ RendererFits(term)
         \/ pc = "done"
         \/ (~crashed /\ framecount = MaxSizeFrames))

====
